---- MODULE Spec2Model ----
(***************************************************************************)
(* Model of GoogleDocsClient (src/src/api/client.rs): the access-token     *)
(* cache behind an RwLock<Option<CachedToken>> and the refresh round-trip  *)
(* to the token issuer, run by several concurrent callers.                 *)
(*                                                                         *)
(* Time is the wall clock read by Utc::now().timestamp(), in seconds.      *)
(* All timestamps of the model stay far below the i64 range, so the i64    *)
(* additions of the code are exact here.                                   *)
(***************************************************************************)
EXTENDS Integers, Sequences, FiniteSets, TLC

\* ---------------------------------------------------------------- bounds
NumCallers == 2
MaxCalls == 2
MaxTicks == 2
MaxLen == 2
MaxIndex == 2

\* ------------------------------------------------------ program constants
JWT_EXPIRATION_SECS == 3600
FRESHNESS_MARGIN_SECS == 60
INSERT_PREVIEW_LEN == 50
REPLACE_PREVIEW_LEN == 30

Callers == 1..NumCallers

\* The clock advances in steps of this many seconds.
TickSteps == {30}

\* The private_key strings a credentials file can carry: a PEM that parses and
\* signs, a string that is no PEM, a PEM whose key cannot sign.
KeyMaterials == {"valid", "bad_pem", "bad_rsa"}

\* expires_in values the issuer may report (any i64 deserializes): one below
\* the freshness margin, one above it.
ExpiresInValues == {30, 90}

\* Transport failures of reqwest::Error, as classified by handle_api_error.
NetworkFailures == {"timeout", "connect", "other"}

\* Non-success statuses of the issuer.
IssuerErrorStatuses == {400, 503}

\* What response.text().await.unwrap_or_default() yields for the body of a
\* non-success answer of the issuer (empty when the body cannot be read).
IssuerBodies == {"", "invalid_grant"}

\* main.rs:19  the environment variable is absent or names a path.
EnvKeys == {"unset", "path"}

\* What read_to_string and serde_json::from_str can find at that path: no
\* readable file, a content that is no ServiceAccountCredentials document, or
\* a document, whose private_key is any string.
KeyFiles ==
  [kind : {"unreadable", "unparseable"}]
  \cup [kind : {"credentials"}, private_key : KeyMaterials]

\* No client has been constructed.
NoKey == "no client"

\* documents.rs:24-26, document.rs:18-47  texts and i32 indices a tool call
\* can carry in its operations.
Texts == {"", "hi"}
IndexValues == (0 - 1) .. MaxIndex

\* document.rs:18-47  enum DocumentRequest
InsertText(text, index) ==
  [kind |-> "InsertText", text |-> text, index |-> index]
DeleteContentRange(start_index, end_index) ==
  [kind |-> "DeleteContentRange", start_index |-> start_index,
   end_index |-> end_index]
ReplaceAllText(find_text, replace_text, match_case) ==
  [kind |-> "ReplaceAllText", find_text |-> find_text,
   replace_text |-> replace_text, match_case |-> match_case]

DocumentRequests ==
  {InsertText(t, i) : t \in Texts, i \in IndexValues}
  \cup {DeleteContentRange(a, b) : a \in IndexValues, b \in IndexValues}
  \cup {ReplaceAllText(f, r, m) : f \in Texts, r \in Texts, m \in BOOLEAN}

\* Vec<DocumentRequest> of up to MaxLen elements.
RequestLists == UNION {[1..n -> DocumentRequests] : n \in 0..MaxLen}

\* documents.rs:27-29, 40  document IDs a tool call can carry: empty, blank,
\* or a name.
DocumentIds == {"", " ", "doc1"}

\* A text of eight characters of four UTF-8 bytes each (U+1F600).
EmojiText == "8 x U+1F600"

\* Request lists of the update tool's calls: empty; valid of each kind, one
\* with a text of multi-byte characters; invalid at the first and at the last
\* position.
ToolRequestLists ==
  { <<>>,
    <<InsertText("hi", 1)>>,
    <<DeleteContentRange(1, 2), ReplaceAllText(EmojiText, "", FALSE)>>,
    <<InsertText("hi", 0)>>,
    <<InsertText("hi", 1), DeleteContentRange(2, 2)>>,
    <<ReplaceAllText("", "hi", TRUE), InsertText("hi", 1)>> }

\* documents.rs:62-65, 138-141  the calls of the two tools
ToolCalls ==
  [tool : {"get"}, document_id : DocumentIds]
  \cup [tool : {"update"}, document_id : {"doc1"}, requests : ToolRequestLists]
  \cup [tool : {"update"}, document_id : {""},
        requests : {<<InsertText("hi", 1)>>}]

\* The first caller makes every call of ToolCalls; the callers beside it are
\* concurrent traffic on the same client, reading one document.
ToolCallsOf(c) ==
  IF c = 1 THEN ToolCalls ELSE {[tool |-> "get", document_id |-> "doc1"]}

\* client.rs:215-236  statuses the document API may answer with: success, the
\* four statuses handle_response names, and another non-success one.
ApiStatuses == {200, 401, 403, 404, 429, 500}

\* Response bodies: empty (or unreadable, client.rs:213), or a JSON document.
ApiBodies == {"", "{json}"}

\* client.rs:168-176, 189-203  how a request to the document API can end
ApiOutcomes ==
  [kind : {"network"}, failure : NetworkFailures]
  \cup [kind : {"response"}, status : ApiStatuses, body : ApiBodies]

\* The first caller's requests end in every way; the concurrent traffic
\* beside it is answered with its document.
ApiOutcomesOf(c) ==
  IF c = 1
    THEN ApiOutcomes
    ELSE {[kind |-> "response", status |-> 200, body |-> "{json}"]}

\* ------------------------------------------------------------- data types
\* Option<CachedToken>
None == [tag |-> "None"]
CachedToken(access_token, expires_at) ==
  [tag |-> "Some", access_token |-> access_token, expires_at |-> expires_at]

IsSome(slot) == slot.tag = "Some"

\* Result<String, McpError> of get_access_token. An Ok result also records the
\* CachedToken the string was cloned from and the path taken, for the
\* properties below.
Pending == [tag |-> "Pending"]
Ok(token, path) ==
  [tag |-> "Ok", access_token |-> token.access_token, token |-> token,
   path |-> path]
Err(message) == [tag |-> "Err", code |-> "internal_error", message |-> message]
ErrStatus(message, status, body) ==
  [tag |-> "Err", code |-> "internal_error", message |-> message,
   status |-> status, body |-> body]

\* JwtClaims
JwtClaims(t) == [iat |-> t, exp |-> t + JWT_EXPIRATION_SECS]

\* What the issuer transport can answer to one POST.
IssuerOutcomes ==
  [kind : {"network"}, failure : NetworkFailures]
  \cup [kind : {"status"}, status : IssuerErrorStatuses, body : IssuerBodies]
  \cup [kind : {"unparseable"}]
  \cup [kind : {"token"}, expires_in : ExpiresInValues]

VARIABLES
  now,             \* Utc::now().timestamp()
  private_key,     \* credentials.private_key, fixed at construction
  cached_token,    \* the RwLock's content: Option<CachedToken>
  readers,         \* callers holding the RwLock for reading
  writers,         \* callers holding the RwLock for writing
  pc,              \* each caller's position in get_access_token
  check_now,       \* `now` of the freshness check of the current call
  fetch_now,       \* `now` of fetch_new_token of the current call
  issuer_response, \* what the POST of the current call ended in
  token_response,  \* the TokenResponse the current call parsed
  new_token,       \* the CachedToken fetch_new_token returned to the call
  result,          \* what the current call returned
  issuer_inflight, \* POSTs to the token issuer not yet answered
  issuer_sent,     \* POSTs the current call of each caller has sent
  calls,           \* get_access_token calls started so far
  issued,          \* access tokens the issuer has minted so far
  last_store,      \* history: the latest store to the slot
  env_key,         \* env::var("GOOGLE_SERVICE_ACCOUNT_KEY") as main finds it
  key_file,        \* what the file named by the variable holds
  phase,           \* main's position: starting, serving or failed
  startup_error,   \* the error main ended with, if any
  tool_call,       \* the tool and parameters of each caller's current tool call
  gpc,             \* each caller's position in its tool call
  api_inflight,    \* requests to the document API not yet answered
  api_sent,        \* document API requests the current call of each caller sent
  api_response,    \* what the document API request of the current call ended in
  api_result,      \* what get_document or batch_update returned to the call
  tool_result,     \* the CallToolResult of the current tool call
  conv_input,      \* the request list handed to convert_requests
  conv_output      \* what convert_requests returned for it

token_vars ==
  <<now, private_key, cached_token, readers, writers, pc, check_now,
    fetch_now, issuer_response, token_response, new_token, result,
    issuer_inflight, issuer_sent, calls, issued, last_store>>

main_vars == <<env_key, key_file, phase, startup_error>>

gw_vars ==
  <<tool_call, gpc, api_inflight, api_sent, api_response, api_result,
    tool_result>>

conv_vars == <<conv_input, conv_output>>

vars == <<token_vars, main_vars, gw_vars, conv_vars>>

\* -------------------------------------------------------- pure functions
\* The comparison of the freshness check turned around.
IsFreshFlipped(token, t) == token.expires_at < t + FRESHNESS_MARGIN_SECS

\* client.rs:88  token.expires_at > now + 60
IsFresh(token, t) == token.expires_at > t + FRESHNESS_MARGIN_SECS

\* client.rs:120  EncodingKey::from_rsa_pem
KeyParses(key) == key # "bad_pem"

\* client.rs:125  encode(&header, &claims, &key)
SignSucceeds(key) == key = "valid"

\* The expiry counted from the clock at the time the response is handled.
ExpiresAtFromResponseTime(t0, t_response, expires_in) == t_response + expires_in

\* client.rs:161  now + token_response.expires_in, `now` read at line 108
ExpiresAt(t0, t_response, expires_in) == t0 + expires_in

\* A store that keeps whatever token the slot already holds.
SwapFirstWriterWins(old, new) == IF IsSome(old) THEN old ELSE new

\* A store that keeps the cached token when it expires later than the new one.
SwapKeepLater(old, new) ==
  IF IsSome(old) /\ old.expires_at > new.expires_at THEN old ELSE new

\* A store that updates the fields one at a time and stops after the first.
SwapTorn(old, new) ==
  IF IsSome(old) THEN [old EXCEPT !.access_token = new.access_token] ELSE new

\* client.rs:100  *cached = Some(new_token.clone())
Swap(old, new) == new

\* tokio RwLock: read() is granted while no writer holds the lock
CanRead(rs, ws) == ws = {}

\* tokio RwLock: write() is granted while nobody holds the lock
CanWrite(rs, ws) == rs = {} /\ ws = {}

\* The read guard kept alive across the refresh.
DropReadGuardLate(rs, c) == rs

\* client.rs:83-92  the read guard lives in a block of its own and is dropped
\* before the refresh starts
DropReadGuard(rs, c) == rs \ {c}

\* A timed-out POST that is reported to the caller but not given up.
SettleLeakTimeout(inflight, req, out) ==
  IF out.kind = "network" /\ out.failure = "timeout" THEN inflight ELSE inflight \ {req}

\* client.rs:135-141  send().await has ended: the POST is no longer in flight
Settle(inflight, req, out) == inflight \ {req}

\* A fetch_new_token without the status check of client.rs:143: an answer of
\* any status goes to the JSON parser.
FetchErrorNoStatusCheck(out) ==
  CASE out.kind = "network" /\ out.failure = "timeout" -> Err("Request timed out")
    [] out.kind = "network" /\ out.failure = "connect" ->
         Err("Failed to connect to Google API")
    [] out.kind = "network" /\ out.failure = "other" -> Err("Network error")
    [] out.kind \in {"status", "unparseable"} ->
         Err("Failed to parse token response")

\* client.rs:141-157  what fetch_new_token makes of a POST that did not end in
\* a parsed TokenResponse
FetchError(out) ==
  CASE out.kind = "network" /\ out.failure = "timeout" -> Err("Request timed out")
    [] out.kind = "network" /\ out.failure = "connect" ->
         Err("Failed to connect to Google API")
    [] out.kind = "network" /\ out.failure = "other" -> Err("Network error")
    [] out.kind = "status" ->
         ErrStatus("Failed to obtain access token", out.status, out.body)
    [] out.kind = "unparseable" -> Err("Failed to parse token response")

\* document.rs:195-207  a GoogleDocsRequest with the given fields set
GoogleDocsRequest(insert_text, delete_content_range, replace_all_text) ==
  [insert_text |-> insert_text, delete_content_range |-> delete_content_range,
   replace_all_text |-> replace_all_text]

\* Result<_, String> of convert_requests
ConvOk(value) == [tag |-> "Ok", value |-> value]
ConvErr(message) == [tag |-> "Err", message |-> message]

\* An insert accepted from index 0 on.
ConvertInsertTextFromZero(req) ==
  IF req.index < 0
    THEN ConvErr("Insert index must be at least 1")
    ELSE ConvOk(GoogleDocsRequest(
           [text |-> req.text, location |-> [index |-> req.index]], None, None))

\* documents.rs:198-213  the InsertText arm
ConvertInsertText(req) ==
  IF req.index < 1
    THEN ConvErr("Insert index must be at least 1")
    ELSE ConvOk(GoogleDocsRequest(
           [text |-> req.text, location |-> [index |-> req.index]], None, None))

\* A delete that accepts the empty range start = end.
ConvertDeleteContentRangeEmptyOk(req) ==
  IF req.start_index < 1
    THEN ConvErr("Start index must be at least 1")
  ELSE IF req.end_index < req.start_index
    THEN ConvErr("End index must be greater than start index")
  ELSE ConvOk(GoogleDocsRequest(None,
         [range |-> [start_index |-> req.start_index,
                     end_index |-> req.end_index]], None))

\* documents.rs:214-234  the DeleteContentRange arm
ConvertDeleteContentRange(req) ==
  IF req.start_index < 1
    THEN ConvErr("Start index must be at least 1")
  ELSE IF req.end_index <= req.start_index
    THEN ConvErr("End index must be greater than start index")
  ELSE ConvOk(GoogleDocsRequest(None,
         [range |-> [start_index |-> req.start_index,
                     end_index |-> req.end_index]], None))

\* A replace that takes an empty replace_text for a missing one.
ConvertReplaceAllTextNeedsReplacement(req) ==
  IF req.find_text = "" \/ req.replace_text = ""
    THEN ConvErr("Find text cannot be empty")
    ELSE ConvOk(GoogleDocsRequest(None, None,
           [contains_text |-> [text |-> req.find_text,
                               match_case |-> req.match_case],
            replace_text |-> req.replace_text]))

\* documents.rs:235-254  the ReplaceAllText arm
ConvertReplaceAllText(req) ==
  IF req.find_text = ""
    THEN ConvErr("Find text cannot be empty")
    ELSE ConvOk(GoogleDocsRequest(None, None,
           [contains_text |-> [text |-> req.find_text,
                               match_case |-> req.match_case],
            replace_text |-> req.replace_text]))

\* documents.rs:197-255  the closure mapped over the requests
ConvertRequest(req) ==
  CASE req.kind = "InsertText" -> ConvertInsertText(req)
    [] req.kind = "DeleteContentRange" -> ConvertDeleteContentRange(req)
    [] req.kind = "ReplaceAllText" -> ConvertReplaceAllText(req)

\* documents.rs:195-256  requests.iter().map(..).collect(): the converted
\* elements in order, or the error of the first element that has one.
RECURSIVE ConvertRequests(_)
ConvertRequests(requests) ==
  IF requests = <<>>
    THEN ConvOk(<<>>)
    ELSE LET head == ConvertRequest(Head(requests)) IN
           IF head.tag = "Err"
             THEN head
             ELSE LET rest == ConvertRequests(Tail(requests)) IN
                    IF rest.tag = "Err"
                      THEN rest
                      ELSE ConvOk(<<head.value>> \o rest.value)

\* A serialization without skip_serializing_if: every field is a key, a None
\* field a null.
SerializeRequestWithNulls(greq) ==
  [k \in {"insertText", "deleteContentRange", "replaceAllText"} |->
     CASE k = "insertText" -> greq.insert_text
       [] k = "deleteContentRange" -> greq.delete_content_range
       [] k = "replaceAllText" -> greq.replace_all_text]

\* document.rs:195-207  serde's output for a GoogleDocsRequest: a JSON object
\* holding a key for each field that is Some (skip_serializing_if), under its
\* camelCase name.
SerializeRequest(greq) ==
  LET keys == {k \in {"insertText", "deleteContentRange", "replaceAllText"} :
                 CASE k = "insertText" -> greq.insert_text # None
                   [] k = "deleteContentRange" -> greq.delete_content_range # None
                   [] k = "replaceAllText" -> greq.replace_all_text # None}
  IN [k \in keys |->
        CASE k = "insertText" -> greq.insert_text
          [] k = "deleteContentRange" -> greq.delete_content_range
          [] k = "replaceAllText" -> greq.replace_all_text]

\* A body that lists the requests last to first.
SerializeBodyReversed(google_requests) ==
  [requests |-> [i \in 1..Len(google_requests) |->
                   SerializeRequest(
                     google_requests[Len(google_requests) + 1 - i])]]

\* client.rs:187, 198  .json(&BatchUpdateRequest { requests })
SerializeBody(google_requests) ==
  [requests |-> [i \in 1..Len(google_requests) |->
                   SerializeRequest(google_requests[i])]]

\* documents.rs:66, 142  document_id.trim().is_empty()
IsBlank(document_id) == document_id \in {"", " "}

\* documents.rs:67-69, 143-158  an early return with CallToolResult::error
Rejected(text) == [tag |-> "Rejected", text |-> text]

\* A validation that looks at the first operation of the batch only.
LocalRejectionFirstOnly(call) ==
  IF IsBlank(call.document_id)
    THEN Rejected("Document ID cannot be empty")
  ELSE IF call.tool = "get"
    THEN None
  ELSE IF call.requests = <<>>
    THEN Rejected("At least one update request is required")
  ELSE IF ConvertRequest(Head(call.requests)).tag = "Err"
    THEN Rejected(ConvertRequest(Head(call.requests)).message)
  ELSE None

\* documents.rs:66-70, 142-160  the text a tool call is rejected with before
\* the client is called, or None
LocalRejection(call) ==
  IF IsBlank(call.document_id)
    THEN Rejected("Document ID cannot be empty")
  ELSE IF call.tool = "get"
    THEN None
  ELSE IF call.requests = <<>>
    THEN Rejected("At least one update request is required")
  ELSE IF ConvertRequests(call.requests).tag = "Err"
    THEN Rejected(ConvertRequests(call.requests).message)
  ELSE None

\* client.rs:168-174, 189-201  the request get_document or batch_update
\* builds for a tool call with the token get_access_token returned
ApiRequest(c, call, token) ==
  IF call.tool = "get"
    THEN [caller |-> c, method |-> "GET", document_id |-> call.document_id,
          authorization |-> <<"Bearer", token>>, body |-> None]
    ELSE [caller |-> c, method |-> "POST", document_id |-> call.document_id,
          authorization |-> <<"Bearer", token>>,
          body |-> SerializeBody(ConvertRequests(call.requests).value)]

\* McpError::invalid_params and McpError::internal_error with the message of
\* handle_response and what the message quotes
ApiErr(code, message, details) ==
  [tag |-> "Err", code |-> code, message |-> message, details |-> details]

\* client.rs:245-255  handle_api_error
HandleApiError(failure) ==
  CASE failure = "timeout" -> Err("Request timed out")
    [] failure = "connect" -> Err("Failed to connect to Google API")
    [] failure = "other" -> Err("Network error")

\* client.rs:238-240  response.json(): the body deserialized, or the error
ParseJson(body) ==
  IF body = "{json}"
    THEN [tag |-> "Ok", value |-> "parsed"]
    ELSE Err("Failed to parse API response")

\* A handle_response that takes 403 for 404.
HandleResponseForbiddenAsNotFound(response) ==
  CASE response.status \in {403, 404} ->
         ApiErr("invalid_params", "Document not found", <<response.body>>)
    [] response.status = 401 ->
         ApiErr("internal_error", "Authentication failed", <<response.body>>)
    [] response.status = 429 ->
         ApiErr("internal_error", "Rate limit exceeded", <<>>)
    [] response.status \in 200..299 -> ParseJson(response.body)
    [] OTHER ->
         ApiErr("internal_error", "API request failed",
                <<response.status, response.body>>)

\* client.rs:208-242  handle_response
HandleResponse(response) ==
  CASE response.status = 404 ->
         ApiErr("invalid_params", "Document not found", <<response.body>>)
    [] response.status = 403 ->
         ApiErr("invalid_params", "Permission denied", <<response.body>>)
    [] response.status = 401 ->
         ApiErr("internal_error", "Authentication failed", <<response.body>>)
    [] response.status = 429 ->
         ApiErr("internal_error", "Rate limit exceeded", <<>>)
    [] response.status \in 200..299 -> ParseJson(response.body)
    [] OTHER ->
         ApiErr("internal_error", "API request failed",
                <<response.status, response.body>>)

\* client.rs:168-177, 189-203  what get_document and batch_update return for
\* the end of their request
ApiResult(out) ==
  IF out.kind = "network"
    THEN HandleApiError(out.failure)
    ELSE HandleResponse(out)

\* The UTF-8 encoding of a text: the number of bytes of each character.
Utf8Widths(text) ==
  CASE text = "" -> <<>>
    [] text = "hi" -> <<1, 1>>
    [] text = EmojiText -> [i \in 1..8 |-> 4]

\* The bytes of the first k characters.
RECURSIVE BytesUpTo(_, _)
BytesUpTo(widths, k) ==
  IF k = 0 THEN 0 ELSE BytesUpTo(widths, k - 1) + widths[k]

\* str::len: the length in bytes
ByteLen(text) == BytesUpTo(Utf8Widths(text), Len(Utf8Widths(text)))

\* str::is_char_boundary: the byte index is where a character begins or ends
IsCharBoundary(text, index) ==
  \E k \in 0..Len(Utf8Widths(text)) : BytesUpTo(Utf8Widths(text), k) = index

\* The thread of control unwinds out of the handler.
Panic == [tag |-> "Panic"]

\* documents.rs:416-422  truncate_text: the text, or its first max_len bytes
\* and "..."; &text[..max_len] panics when max_len is inside a character.
TruncateText(text, max_len) ==
  IF ByteLen(text) <= max_len
    THEN [tag |-> "Ok", bytes |-> ByteLen(text)]
  ELSE IF IsCharBoundary(text, max_len)
    THEN [tag |-> "Ok", bytes |-> max_len + 3]
  ELSE Panic

\* documents.rs:365-397  the line of the Markdown response for one operation
DescribeOperation(req) ==
  CASE req.kind = "InsertText" -> TruncateText(req.text, INSERT_PREVIEW_LEN)
    [] req.kind = "DeleteContentRange" -> [tag |-> "Ok", bytes |-> 0]
    [] req.kind = "ReplaceAllText" ->
         IF TruncateText(req.find_text, REPLACE_PREVIEW_LEN) = Panic
           THEN Panic
           ELSE TruncateText(req.replace_text, REPLACE_PREVIEW_LEN)

\* documents.rs:347-400  format_update_response with the default format,
\* Markdown: a text, unless describing one of the operations panics.
FormatUpdateResponse(requests) ==
  IF \E i \in 1..Len(requests) : DescribeOperation(requests[i]) = Panic
    THEN Panic
    ELSE [tag |-> "Ok", text |-> "formatted response"]

\* documents.rs:72-81, 162-176  the CallToolResult made of the client's result
ToolResult(call, res) ==
  IF res.tag = "Ok" /\ call.tool = "update"
       /\ FormatUpdateResponse(call.requests) = Panic
    THEN Panic
  ELSE IF res.tag = "Ok"
    THEN [is_error |-> FALSE, text |-> "formatted response", error |-> None]
    ELSE [is_error |-> TRUE,
          text |-> IF call.tool = "get" THEN "Failed to get document"
                                         ELSE "Failed to update document",
          error |-> res]

\* documents.rs:67-69, 143-158  CallToolResult::error with a text
ToolError(text) == [is_error |-> TRUE, text |-> text, error |-> None]

\* A startup that takes a key file it cannot parse for empty credentials.
LoadCredentialsUnparsed(env, file) ==
  IF env = "unset"
    THEN Err("GOOGLE_SERVICE_ACCOUNT_KEY environment variable is required")
  ELSE IF file.kind = "unreadable"
    THEN Err("Failed to read service account key file")
  ELSE IF file.kind = "unparseable"
    THEN [tag |-> "Ok", private_key |-> "bad_pem"]
  ELSE [tag |-> "Ok", private_key |-> file.private_key]

\* main.rs:19-32, client.rs:61-78  what main makes of the environment and the
\* key file before it serves: the error it ends with, or the credentials.
\* from_json_file looks at the JSON shape only, never at private_key.
LoadCredentials(env, file) ==
  IF env = "unset"
    THEN Err("GOOGLE_SERVICE_ACCOUNT_KEY environment variable is required")
  ELSE IF file.kind = "unreadable"
    THEN Err("Failed to read service account key file")
  ELSE IF file.kind = "unparseable"
    THEN Err("Failed to parse service account key file")
  ELSE [tag |-> "Ok", private_key |-> file.private_key]

\* ---------------------------------------------------------------- Init
\* client.rs:47-58  GoogleDocsClient::new: an empty slot, nothing in flight.
NewClient ==
  /\ now = 0
  /\ cached_token = None
  /\ readers = {}
  /\ writers = {}
  /\ pc = [c \in Callers |-> "idle"]
  /\ check_now = [c \in Callers |-> 0]
  /\ fetch_now = [c \in Callers |-> 0]
  /\ issuer_response = [c \in Callers |-> None]
  /\ token_response = [c \in Callers |-> None]
  /\ new_token = [c \in Callers |-> None]
  /\ result = [c \in Callers |-> Pending]
  /\ issuer_inflight = {}
  /\ issuer_sent = [c \in Callers |-> 0]
  /\ calls = 0
  /\ issued = 0
  /\ last_store = None

\* documents.rs:53-58  GoogleDocsMcpServer::new: no tool call has begun.
NewServer ==
  /\ tool_call = [c \in Callers |-> None]
  /\ gpc = [c \in Callers |-> "idle"]
  /\ api_inflight = {}
  /\ api_sent = [c \in Callers |-> 0]
  /\ api_response = [c \in Callers |-> None]
  /\ api_result = [c \in Callers |-> Pending]
  /\ tool_result = [c \in Callers |-> Pending]

\* convert_requests is not being applied.
NoConversion ==
  /\ conv_input = <<>>
  /\ conv_output = Pending

\* The state after main constructed the client and began to serve.
Init ==
  /\ private_key \in KeyMaterials
  /\ NewClient
  /\ env_key = "path"
  /\ key_file = [kind |-> "credentials", private_key |-> private_key]
  /\ phase = "serving"
  /\ startup_error = None
  /\ NewServer
  /\ NoConversion

\* The state at the entry of main.
MainInit ==
  /\ private_key = NoKey
  /\ NewClient
  /\ env_key \in EnvKeys
  /\ key_file \in KeyFiles
  /\ phase = "starting"
  /\ startup_error = None
  /\ NewServer
  /\ NoConversion

\* convert_requests about to be applied to a request list.
ConvertInit ==
  /\ private_key = NoKey
  /\ NewClient
  /\ env_key = "unset"
  /\ key_file = [kind |-> "unreadable"]
  /\ phase = "starting"
  /\ startup_error = None
  /\ NewServer
  /\ conv_input \in RequestLists
  /\ conv_output = Pending

\* -------------------------------------------------------------- actions
\* main.rs:19-41  main reads the variable and the file and, with credentials
\* in hand, constructs the client and serves; otherwise it ends with an error.
Main ==
  /\ phase = "starting"
  /\ LET loaded == LoadCredentials(env_key, key_file) IN
       IF loaded.tag = "Ok"
         THEN /\ private_key' = loaded.private_key
              /\ phase' = "serving"
              /\ UNCHANGED startup_error
         ELSE /\ phase' = "failed"
              /\ startup_error' = loaded
              /\ UNCHANGED private_key
  /\ UNCHANGED <<now, cached_token, readers, writers, pc, check_now,
                 fetch_now, issuer_response, token_response, new_token, result,
                 issuer_inflight, issuer_sent, calls, issued, last_store,
                 env_key, key_file>>
  /\ UNCHANGED <<gw_vars, conv_vars>>

\* The wall clock advances.
Tick ==
  /\ \E d \in TickSteps :
       /\ now + d <= MaxTicks * d
       /\ now' = now + d
  /\ UNCHANGED <<private_key, cached_token, readers, writers, pc, check_now,
                 fetch_now, issuer_response, token_response, new_token, result,
                 issuer_inflight, issuer_sent, calls, issued, last_store>>

\* client.rs:81-84  a caller enters get_access_token and awaits read()
CallGetAccessToken(c) ==
  /\ pc[c] \in {"idle", "done"}
  /\ calls < MaxCalls
  /\ calls' = calls + 1
  /\ pc' = [pc EXCEPT ![c] = "read_wait"]
  /\ result' = [result EXCEPT ![c] = Pending]
  /\ issuer_sent' = [issuer_sent EXCEPT ![c] = 0]
  /\ issuer_response' = [issuer_response EXCEPT ![c] = None]
  /\ UNCHANGED <<now, private_key, cached_token, readers, writers, check_now,
                 fetch_now, token_response, new_token, issuer_inflight,
                 issued, last_store>>

\* client.rs:84  self.cached_token.read().await completes
AcquireRead(c) ==
  /\ pc[c] = "read_wait"
  /\ CanRead(readers, writers)
  /\ readers' = readers \cup {c}
  /\ pc' = [pc EXCEPT ![c] = "check"]
  /\ UNCHANGED <<now, private_key, cached_token, writers, check_now,
                 fetch_now, issuer_response, token_response, new_token, result,
                 issuer_inflight, issuer_sent, calls, issued, last_store>>

\* client.rs:85-92  the freshness check under the read guard: a fresh token is
\* returned (the guard is dropped by the return), otherwise the block ends
CheckFresh(c) ==
  /\ pc[c] = "check"
  /\ IF IsSome(cached_token) /\ IsFresh(cached_token, now)
       THEN /\ result' = [result EXCEPT ![c] = Ok(cached_token, "cached")]
            /\ pc' = [pc EXCEPT ![c] = "done"]
            /\ readers' = readers \ {c}
            /\ check_now' = check_now
       ELSE /\ result' = result
            /\ pc' = [pc EXCEPT ![c] = "fetch"]
            /\ readers' = DropReadGuard(readers, c)
            /\ check_now' = [check_now EXCEPT ![c] = now]
  /\ UNCHANGED <<now, private_key, cached_token, writers, fetch_now,
                 issuer_response, token_response, new_token, issuer_inflight, issuer_sent,
                 calls, issued, last_store>>

\* client.rs:107-141  fetch_new_token up to the POST: read the clock, build
\* the claims, parse the key, sign, send
FetchStart(c) ==
  /\ pc[c] = "fetch"
  /\ IF ~KeyParses(private_key)
       THEN /\ result' = [result EXCEPT ![c] = Err("Failed to parse private key")]
            /\ pc' = [pc EXCEPT ![c] = "done"]
            /\ check_now' = [check_now EXCEPT ![c] = 0]
            /\ UNCHANGED <<fetch_now, issuer_inflight, issuer_sent>>
       ELSE IF ~SignSucceeds(private_key)
         THEN /\ result' = [result EXCEPT ![c] = Err("Failed to create JWT")]
              /\ pc' = [pc EXCEPT ![c] = "done"]
              /\ check_now' = [check_now EXCEPT ![c] = 0]
              /\ UNCHANGED <<fetch_now, issuer_inflight, issuer_sent>>
         ELSE /\ fetch_now' = [fetch_now EXCEPT ![c] = now]
              /\ issuer_inflight' =
                   issuer_inflight \cup {[caller |-> c, claims |-> JwtClaims(now)]}
              /\ issuer_sent' = [issuer_sent EXCEPT ![c] = @ + 1]
              /\ pc' = [pc EXCEPT ![c] = "await_issuer"]
              /\ UNCHANGED <<result, check_now>>
  /\ UNCHANGED <<now, private_key, cached_token, readers, writers,
                 issuer_response, token_response, new_token, calls, issued, last_store>>

\* A get_access_token that empties the slot when its refresh fails.
FetchCompleteClearingSlot(c) ==
  /\ pc[c] = "await_issuer"
  /\ \E req \in issuer_inflight, out \in IssuerOutcomes :
       /\ req.caller = c
       /\ issuer_inflight' = Settle(issuer_inflight, req, out)
       /\ issuer_response' = [issuer_response EXCEPT ![c] = out]
       /\ IF out.kind = "token"
            THEN /\ issued' = issued + 1
                 /\ token_response' = [token_response EXCEPT ![c] =
                      [access_token |-> issued + 1, expires_in |-> out.expires_in]]
                 /\ new_token' = [new_token EXCEPT ![c] =
                      CachedToken(issued + 1,
                                  ExpiresAt(fetch_now[c], now, out.expires_in))]
                 /\ pc' = [pc EXCEPT ![c] = "write_wait"]
                 /\ UNCHANGED <<result, check_now, fetch_now, cached_token>>
            ELSE /\ result' = [result EXCEPT ![c] = FetchError(out)]
                 /\ pc' = [pc EXCEPT ![c] = "done"]
                 /\ check_now' = [check_now EXCEPT ![c] = 0]
                 /\ fetch_now' = [fetch_now EXCEPT ![c] = 0]
                 /\ cached_token' = None
                 /\ UNCHANGED <<token_response, new_token, issued>>
  /\ UNCHANGED <<now, private_key, readers, writers,
                 issuer_sent, calls, last_store>>

\* client.rs:135-162 and 95  the POST ends (a transport failure, a status, a
\* body) and fetch_new_token returns; `?` at line 95 hands an error to the
\* caller of get_access_token
FetchComplete(c) ==
  /\ pc[c] = "await_issuer"
  /\ \E req \in issuer_inflight, out \in IssuerOutcomes :
       /\ req.caller = c
       /\ issuer_inflight' = Settle(issuer_inflight, req, out)
       /\ issuer_response' = [issuer_response EXCEPT ![c] = out]
       /\ IF out.kind = "token"
            THEN /\ issued' = issued + 1
                 /\ token_response' = [token_response EXCEPT ![c] =
                      [access_token |-> issued + 1, expires_in |-> out.expires_in]]
                 /\ new_token' = [new_token EXCEPT ![c] =
                      CachedToken(issued + 1,
                                  ExpiresAt(fetch_now[c], now, out.expires_in))]
                 /\ pc' = [pc EXCEPT ![c] = "write_wait"]
                 /\ UNCHANGED <<result, check_now, fetch_now>>
            ELSE /\ result' = [result EXCEPT ![c] = FetchError(out)]
                 /\ pc' = [pc EXCEPT ![c] = "done"]
                 /\ check_now' = [check_now EXCEPT ![c] = 0]
                 /\ fetch_now' = [fetch_now EXCEPT ![c] = 0]
                 /\ UNCHANGED <<token_response, new_token, issued>>
  /\ UNCHANGED <<now, private_key, cached_token, readers, writers,
                 issuer_sent, calls, last_store>>

\* client.rs:99  self.cached_token.write().await completes
AcquireWrite(c) ==
  /\ pc[c] = "write_wait"
  /\ CanWrite(readers, writers)
  /\ writers' = writers \cup {c}
  /\ pc' = [pc EXCEPT ![c] = "write"]
  /\ UNCHANGED <<now, private_key, cached_token, readers, check_now,
                 fetch_now, issuer_response, token_response, new_token, result,
                 issuer_inflight, issuer_sent, calls, issued, last_store>>

\* A get_access_token that returns with the write guard still alive.
StoreTokenKeepGuard(c) ==
  /\ pc[c] = "write"
  /\ cached_token' = Swap(cached_token, new_token[c])
  /\ last_store' = [tag |-> "Store", caller |-> c, token |-> new_token[c],
                    t0 |-> fetch_now[c], response |-> token_response[c]]
  /\ writers' = writers
  /\ result' = [result EXCEPT ![c] = Ok(new_token[c], "refreshed")]
  /\ pc' = [pc EXCEPT ![c] = "done"]
  /\ check_now' = [check_now EXCEPT ![c] = 0]
  /\ fetch_now' = [fetch_now EXCEPT ![c] = 0]
  /\ issuer_response' = [issuer_response EXCEPT ![c] = None]
  /\ token_response' = [token_response EXCEPT ![c] = None]
  /\ new_token' = [new_token EXCEPT ![c] = None]
  /\ UNCHANGED <<now, private_key, readers, issuer_inflight, issuer_sent,
                 calls, issued>>

\* client.rs:100-103  store the new token, drop the write guard, return it
StoreToken(c) ==
  /\ pc[c] = "write"
  /\ cached_token' = Swap(cached_token, new_token[c])
  /\ last_store' = [tag |-> "Store", caller |-> c, token |-> new_token[c],
                    t0 |-> fetch_now[c], response |-> token_response[c]]
  /\ writers' = writers \ {c}
  /\ result' = [result EXCEPT ![c] = Ok(new_token[c], "refreshed")]
  /\ pc' = [pc EXCEPT ![c] = "done"]
  /\ check_now' = [check_now EXCEPT ![c] = 0]
  /\ fetch_now' = [fetch_now EXCEPT ![c] = 0]
  /\ issuer_response' = [issuer_response EXCEPT ![c] = None]
  /\ token_response' = [token_response EXCEPT ![c] = None]
  /\ new_token' = [new_token EXCEPT ![c] = None]
  /\ UNCHANGED <<now, private_key, readers, issuer_inflight, issuer_sent,
                 calls, issued>>

\* The callers of get_access_token on a constructed client.
Next ==
  \/ Tick /\ UNCHANGED <<main_vars, gw_vars, conv_vars>>
  \/ \E c \in Callers : CallGetAccessToken(c) /\ UNCHANGED <<main_vars, gw_vars, conv_vars>>
  \/ \E c \in Callers : AcquireRead(c) /\ UNCHANGED <<main_vars, gw_vars, conv_vars>>
  \/ \E c \in Callers : CheckFresh(c) /\ UNCHANGED <<main_vars, gw_vars, conv_vars>>
  \/ \E c \in Callers : FetchStart(c) /\ UNCHANGED <<main_vars, gw_vars, conv_vars>>
  \/ \E c \in Callers : FetchComplete(c) /\ UNCHANGED <<main_vars, gw_vars, conv_vars>>
  \/ \E c \in Callers : AcquireWrite(c) /\ UNCHANGED <<main_vars, gw_vars, conv_vars>>
  \/ \E c \in Callers : StoreToken(c) /\ UNCHANGED <<main_vars, gw_vars, conv_vars>>

Spec == Init /\ [][Next]_vars

\* documents.rs:155  convert_requests(&params.requests) returns
Convert ==
  /\ conv_output = Pending
  /\ conv_output' = ConvertRequests(conv_input)
  /\ UNCHANGED <<token_vars, main_vars, gw_vars, conv_input>>

SpecConvert == ConvertInit /\ [][Convert]_vars

\* documents.rs:62-72, 138-165  a tool call arrives: the call is rejected on
\* the spot, or the client method is entered and calls get_access_token.
CallTool(c) ==
  /\ gpc[c] \in {"idle", "done"}
  /\ \E call \in ToolCallsOf(c) :
       /\ tool_call' = [tool_call EXCEPT ![c] = call]
       /\ api_sent' = [api_sent EXCEPT ![c] = 0]
       /\ api_response' = [api_response EXCEPT ![c] = None]
       /\ api_result' = [api_result EXCEPT ![c] = Pending]
       /\ IF LocalRejection(call) # None
            THEN /\ tool_result' =
                      [tool_result EXCEPT ![c] =
                         ToolError(LocalRejection(call).text)]
                 /\ gpc' = [gpc EXCEPT ![c] = "done"]
                 /\ UNCHANGED token_vars
            ELSE /\ tool_result' = [tool_result EXCEPT ![c] = Pending]
                 /\ gpc' = [gpc EXCEPT ![c] = "token"]
                 /\ CallGetAccessToken(c)
  /\ UNCHANGED <<api_inflight, main_vars, conv_vars>>

\* client.rs:189-201  the request goes out with the token of the call
PutOnWire(c, token) ==
  /\ api_inflight' = api_inflight \cup {ApiRequest(c, tool_call[c], token)}
  /\ api_sent' = [api_sent EXCEPT ![c] = @ + 1]
  /\ gpc' = [gpc EXCEPT ![c] = "await_api"]
  /\ UNCHANGED <<api_result, tool_result>>

\* A client method that sends its request whatever get_access_token returned.
SendApiRequestWhateverToken(c) ==
  /\ gpc[c] = "token"
  /\ pc[c] = "done"
  /\ PutOnWire(c, IF result[c].tag = "Ok" THEN result[c].access_token ELSE 0)
  /\ UNCHANGED <<tool_call, api_response, token_vars, main_vars, conv_vars>>

\* client.rs:166-174, 186-201  get_access_token has returned: its error ends
\* the call, its token goes out in the request to the document API.
SendApiRequest(c) ==
  /\ gpc[c] = "token"
  /\ pc[c] = "done"
  /\ IF result[c].tag = "Err"
       THEN /\ api_result' = [api_result EXCEPT ![c] = result[c]]
            /\ tool_result' =
                 [tool_result EXCEPT ![c] = ToolResult(tool_call[c], result[c])]
            /\ gpc' = [gpc EXCEPT ![c] = "done"]
            /\ UNCHANGED <<api_inflight, api_sent>>
       ELSE PutOnWire(c, result[c].access_token)
  /\ UNCHANGED <<tool_call, api_response, token_vars, main_vars, conv_vars>>

\* The client method returns what it makes of the end of its request and the
\* handler makes its CallToolResult of it. A handler that panics returns
\* nothing; whether the process outlives it is the panic strategy's and the
\* runtime's choice.
Finish(c, req, out) ==
  /\ api_inflight' = api_inflight \ {req}
  /\ api_response' = [api_response EXCEPT ![c] = out]
  /\ api_result' = [api_result EXCEPT ![c] = ApiResult(out)]
  /\ IF ToolResult(tool_call[c], ApiResult(out)) = Panic
       THEN /\ gpc' = [gpc EXCEPT ![c] = "panicked"]
            /\ phase' \in {"serving", "aborted"}
            /\ UNCHANGED tool_result
       ELSE /\ tool_result' =
                 [tool_result EXCEPT ![c] =
                    ToolResult(tool_call[c], ApiResult(out))]
            /\ gpc' = [gpc EXCEPT ![c] = "done"]
            /\ UNCHANGED phase
  /\ UNCHANGED api_sent

\* A client method that sends its request again when it is answered with 429.
ApiCompleteRetrying(c) ==
  /\ gpc[c] = "await_api"
  /\ \E req \in api_inflight, out \in ApiOutcomesOf(c) :
       /\ req.caller = c
       /\ IF out.kind = "response" /\ out.status = 429 /\ api_sent[c] < 2
            THEN /\ api_sent' = [api_sent EXCEPT ![c] = @ + 1]
                 /\ UNCHANGED <<api_inflight, api_response, api_result,
                                tool_result, gpc, phase>>
            ELSE Finish(c, req, out)
  /\ UNCHANGED <<tool_call, token_vars, env_key, key_file, startup_error,
                 conv_vars>>

\* A client method that empties the token slot when it is answered with 401.
ApiCompleteInvalidating(c) ==
  /\ gpc[c] = "await_api"
  /\ \E req \in api_inflight, out \in ApiOutcomesOf(c) :
       /\ req.caller = c
       /\ Finish(c, req, out)
       /\ cached_token' =
            IF out.kind = "response" /\ out.status = 401
              THEN None ELSE cached_token
  /\ UNCHANGED <<now, private_key, readers, writers, pc, check_now,
                 fetch_now, issuer_response, token_response, new_token, result,
                 issuer_inflight, issuer_sent, calls, issued, last_store>>
  /\ UNCHANGED <<tool_call, env_key, key_file, startup_error, conv_vars>>

\* client.rs:172-177, 199-203 and documents.rs:72-81, 162-176  the request
\* ends (a transport failure or a response) and the call returns.
ApiComplete(c) ==
  /\ gpc[c] = "await_api"
  /\ \E req \in api_inflight, out \in ApiOutcomesOf(c) :
       /\ req.caller = c
       /\ Finish(c, req, out)
  /\ UNCHANGED <<tool_call, token_vars, env_key, key_file, startup_error,
                 conv_vars>>

\* main.rs:41-44  the process is serving tool calls.
Serving == phase = "serving"

\* The tool calls served on a constructed client, at one reading of the
\* clock: a token in the slot is fresh or stale by its expires_in.
ApiNext ==
  \/ \E c \in Callers : Serving /\ CallTool(c)
  \/ \E c \in Callers : Serving /\ AcquireRead(c)
       /\ UNCHANGED <<main_vars, gw_vars, conv_vars>>
  \/ \E c \in Callers : Serving /\ CheckFresh(c)
       /\ UNCHANGED <<main_vars, gw_vars, conv_vars>>
  \/ \E c \in Callers : Serving /\ FetchStart(c)
       /\ UNCHANGED <<main_vars, gw_vars, conv_vars>>
  \/ \E c \in Callers : Serving /\ FetchComplete(c)
       /\ UNCHANGED <<main_vars, gw_vars, conv_vars>>
  \/ \E c \in Callers : Serving /\ AcquireWrite(c)
       /\ UNCHANGED <<main_vars, gw_vars, conv_vars>>
  \/ \E c \in Callers : Serving /\ StoreToken(c)
       /\ UNCHANGED <<main_vars, gw_vars, conv_vars>>
  \/ \E c \in Callers : Serving /\ SendApiRequest(c)
  \/ \E c \in Callers : Serving /\ ApiComplete(c)

SpecApi == Init /\ [][ApiNext]_vars

\* The calls and the ends of requests followed to their return: one call of
\* each tool, and of each request the ends that go on (a token, a document)
\* and the timeout, which makes the call fail.
LiveToolCalls ==
  {[tool |-> "get", document_id |-> "doc1"],
   [tool |-> "update", document_id |-> "doc1",
    requests |-> <<DeleteContentRange(1, 2), ReplaceAllText(EmojiText, "", FALSE)>>]}
LiveIssuerOutcomes ==
  [kind : {"token"}, expires_in : ExpiresInValues]
  \cup {[kind |-> "network", failure |-> "timeout"]}
LiveApiOutcomes ==
  {[kind |-> "response", status |-> 200, body |-> "{json}"],
   [kind |-> "network", failure |-> "timeout"]}
LiveInputs ==
  \A c \in Callers :
    /\ tool_call[c] \in LiveToolCalls \cup {None}
    /\ issuer_response[c] \in LiveIssuerOutcomes \cup {None}
    /\ api_response[c] \in LiveApiOutcomes \cup {None}

\* One step of caller c inside a client method that needs nothing but to be
\* polled: a step of get_access_token between its awaits, or the sending of
\* the request to the document API.
ClientStep(c) ==
  \/ CheckFresh(c) /\ UNCHANGED <<main_vars, gw_vars, conv_vars>>
  \/ FetchStart(c) /\ UNCHANGED <<main_vars, gw_vars, conv_vars>>
  \/ StoreToken(c) /\ UNCHANGED <<main_vars, gw_vars, conv_vars>>
  \/ SendApiRequest(c)

\* The served tool calls, with the inputs of LiveInputs.
LiveNext == ApiNext /\ LiveInputs'

\* client.rs:47-50  the HTTP client is built with a timeout of 30 seconds, so
\* send().await of every request ends; the runtime polls every task that can
\* go on, and a caller for which the lock stays free gets it (tokio's RwLock
\* hands the lock out in the order of arrival, which promises more).
Fairness ==
  \A c \in Callers :
    /\ WF_vars(Serving /\ ClientStep(c))
    /\ WF_vars(Serving /\ AcquireRead(c)
                 /\ UNCHANGED <<main_vars, gw_vars, conv_vars>>)
    /\ WF_vars(Serving /\ AcquireWrite(c)
                 /\ UNCHANGED <<main_vars, gw_vars, conv_vars>>)
    /\ WF_vars(Serving /\ FetchComplete(c)
                 /\ UNCHANGED <<main_vars, gw_vars, conv_vars>> /\ LiveInputs')
    /\ WF_vars(Serving /\ ApiComplete(c) /\ LiveInputs')

\* The served tool calls under the timeout and a fair runtime.
SpecApiLive == Init /\ [][LiveNext]_vars /\ Fairness

\* The process from the entry of main: calls are served once main serves.
MainNext ==
  \/ Main
  \/ phase = "serving" /\ Next

SpecMain == MainInit /\ [][MainNext]_vars

\* The process from the entry of main, serving tool calls once main serves.
MainApiNext ==
  \/ Main
  \/ ApiNext

SpecMainApi == MainInit /\ [][MainApiNext]_vars

\* ------------------------------------------------------------ properties
\* The clock of the freshness check of the call that caller c is ending.
CheckTime(c) == IF pc[c] = "check" THEN now ELSE check_now[c]

\* Caller c's call of get_access_token returns in this step.
Returns(c) == pc[c] # "done" /\ pc'[c] = "done"

\* The POSTs of caller c that are in flight.
InFlightOf(c) == {req \in issuer_inflight : req.caller = c}

\* C1: a freshness check that finds a token with expires_at > now + 60 in the
\* slot returns that token's access_token, sends no request to the issuer
\* and leaves the slot as it is, whatever the other callers are doing.
C1_FreshTokenServedFromCache ==
  [][\A c \in Callers :
       (/\ pc[c] = "check"
        /\ pc'[c] # "check"
        /\ IsSome(cached_token)
        /\ cached_token.expires_at > now + FRESHNESS_MARGIN_SECS)
       => (/\ pc'[c] = "done"
           /\ result'[c].tag = "Ok"
           /\ result'[c].access_token = cached_token.access_token
           /\ cached_token' = cached_token
           /\ issuer_inflight' = issuer_inflight
           /\ issuer_sent'[c] = 0)]_vars

\* C1 witness: a call has returned the cached token without a request, while
\* the token is still the one in the slot.
C1_Witness ==
  \E c \in Callers :
    /\ pc[c] = "done"
    /\ result[c].tag = "Ok"
    /\ result[c].path = "cached"
    /\ result[c].token = cached_token
    /\ issuer_sent[c] = 0

\* C2: a call whose freshness check found the slot absent or holding a token
\* with expires_at <= now + 60 has sent exactly one request to the issuer by
\* the time it returns.
C2_StaleCallSendsExactlyOneRequest ==
  \A c \in Callers :
    (pc[c] = "done" /\ ~(result[c].tag = "Ok" /\ result[c].path = "cached"))
    => issuer_sent[c] = 1

\* C3: a token returned by get_access_token has expires_at > now at the moment
\* of the return, on the cached path and on the refresh path.
C3_ReturnedTokenNotExpired ==
  [][\A c \in Callers :
       (Returns(c) /\ result'[c].tag = "Ok")
       => result'[c].token.expires_at > now']_vars

\* C4: a token returned by get_access_token has at least 60 seconds left at
\* the clock of the freshness check of the same call, on both paths.
C4_ReturnedTokenHasMarginAtCheck ==
  [][\A c \in Callers :
       (Returns(c) /\ result'[c].tag = "Ok")
       => result'[c].token.expires_at - CheckTime(c) >= FRESHNESS_MARGIN_SECS]_vars

\* C5: the expiry of a refreshed token is t0 + expires_in, t0 being the clock
\* read at the start of the refresh, which is also the iat of the assertion:
\* for the token a refresh has built and for the token stored in the slot.
C5_ExpiresAtFromRefreshStart ==
  /\ \A req \in issuer_inflight : req.claims.iat = fetch_now[req.caller]
  /\ \A c \in Callers :
       pc[c] \in {"write_wait", "write"}
       => new_token[c].expires_at = fetch_now[c] + token_response[c].expires_in
  /\ last_store # None
       => cached_token.expires_at = last_store.t0 + last_store.response.expires_in

\* C5 witness: a refresh that started at t0 with a token already stored holds
\* the write lock with its new token while the clock is past t0, so a clock
\* read after the response would give another expiry.
C5_Witness ==
  \E c \in Callers :
    /\ pc[c] = "write"
    /\ last_store # None
    /\ fetch_now[c] < now
    /\ new_token[c].expires_at = fetch_now[c] + token_response[c].expires_in
    /\ new_token[c].expires_at # now + token_response[c].expires_in

\* C6 as stated: at most one request to the issuer is in flight at any time.
C6_AtMostOneIssuerRequestInFlight == Cardinality(issuer_inflight) <= 1

\* C6 amended: each caller has at most one request to the issuer in flight,
\* and only while it awaits the issuer inside its refresh; the requests of
\* different callers are in flight together.
C6_OneIssuerRequestPerCaller ==
  \A c \in Callers :
    /\ Cardinality(InFlightOf(c)) <= 1
    /\ InFlightOf(c) # {} <=> pc[c] = "await_issuer"

\* C6 witness: two callers found the slot absent or stale and both have a
\* request in flight.
C6_Witness ==
  \E c1, c2 \in Callers :
    /\ c1 # c2
    /\ InFlightOf(c1) # {}
    /\ InFlightOf(c2) # {}

\* C7: every caller that found the slot stale or absent sends its own request
\* whatever the others do, every caller that got a token stores it without
\* looking at the slot, the slot holds the token of the latest store, and
\* that token carries the access_token of a successful issuer response.
C7_EachStaleCallerRefreshesAndStores ==
  /\ [](cached_token = (IF last_store = None THEN None ELSE last_store.token))
  /\ [](last_store # None
          => last_store.token.access_token = last_store.response.access_token)
  /\ [][\A c \in Callers :
          /\ (pc[c] = "fetch" /\ pc'[c] # "fetch" /\ private_key = "valid")
             => (pc'[c] = "await_issuer" /\ issuer_sent'[c] = 1
                 /\ InFlightOf(c)' # {})
          /\ (pc[c] = "await_issuer" /\ new_token'[c] # new_token[c])
             => pc'[c] = "write_wait"
          /\ (pc[c] = "write" /\ pc'[c] # "write")
             => (cached_token' = new_token[c] /\ result'[c].token = new_token[c])]_vars

\* C7 witness: two callers both refreshed and stored; the second store
\* replaced the token of the first although that token is still fresh.
C7_Witness ==
  \E c1, c2 \in Callers :
    /\ c1 # c2
    /\ pc[c1] = "done" /\ result[c1].tag = "Ok" /\ result[c1].path = "refreshed"
    /\ pc[c2] = "done" /\ result[c2].tag = "Ok" /\ result[c2].path = "refreshed"
    /\ last_store.caller = c2
    /\ cached_token = result[c2].token
    /\ IsFresh(result[c1].token, now)

\* C8: the slot is absent or holds the access_token and the expiry of one and
\* the same issuer response; it changes only in the store of the caller
\* holding the write lock, to that caller's complete token; a reader returns
\* the token the slot holds as a whole.
C8_SlotHoldsOneCompleteToken ==
  /\ [](IF last_store = None
          THEN cached_token = None
          ELSE cached_token =
                 CachedToken(last_store.response.access_token,
                             last_store.t0 + last_store.response.expires_in))
  /\ [][/\ cached_token' # cached_token
             => \E c \in writers : pc[c] = "write" /\ cached_token' = new_token[c]
        /\ \A c \in Callers :
             (pc[c] = "check" /\ pc'[c] = "done") => result'[c].token = cached_token]_vars

\* C8 witness: a token was stored and is still the slot's value, whole,
\* while another caller holds a different new token and has not stored it.
C8_Witness ==
  \E c \in Callers :
    /\ pc[c] = "write"
    /\ last_store # None
    /\ last_store.caller # c
    /\ cached_token = last_store.token
    /\ new_token[c] # cached_token

\* C9: at most one caller holds the slot for writing, and then none for
\* reading; a caller holds it for reading only during its freshness check and
\* for writing only during its store, so never while its request is in flight.
C9_ReaderWriterDiscipline ==
  /\ Cardinality(writers) <= 1
  /\ writers # {} => readers = {}
  /\ \A c \in Callers :
       /\ c \in readers <=> pc[c] = "check"
       /\ c \in writers <=> pc[c] = "write"
       /\ pc[c] = "await_issuer" => c \notin readers \cup writers

\* C9 witness: two callers hold the slot for reading at once.
C9_Witness == Cardinality(readers) >= 2

\* The errors of an unreachable issuer, a rejected request and a body that
\* cannot be parsed.
IssuerFailureMessages ==
  {"Request timed out", "Failed to connect to Google API", "Network error",
   "Failed to obtain access token", "Failed to parse token response"}

\* C10: a call of get_access_token that ends in an error ends in one of the
\* errors of the issuer round-trip.
C10_FailsOnlyForIssuerReasons ==
  \A c \in Callers :
    (pc[c] = "done" /\ result[c].tag = "Err")
    => result[c].message \in IssuerFailureMessages

\* The McpError of a failed call as its caller can tell it from others: the
\* code and the text of the message.
Category(res) == <<res.code, res.message>>

C12_KeyValidatedAtStartup ==
  /\ phase = "serving" => KeyParses(private_key)
  /\ \A c \in Callers :
       (pc[c] = "done" /\ result[c].tag = "Err")
       => result[c].message # "Failed to parse private key"

\* The requests of caller c in flight to the document API.
ApiInFlightOf(c) == {req \in api_inflight : req.caller = c}

\* C13: every request in flight to the document API belongs to a call whose
\* get_access_token has returned a token, carries that token as its Bearer
\* and is a GET for the get tool, a POST for the update tool; a call whose
\* get_access_token returned an error has sent no request to the document API.
C13_RequestCarriesReturnedToken ==
  /\ \A req \in api_inflight :
       /\ gpc[req.caller] = "await_api"
       /\ pc[req.caller] = "done"
       /\ result[req.caller].tag = "Ok"
       /\ req.authorization = <<"Bearer", result[req.caller].access_token>>
       /\ req.method =
            IF tool_call[req.caller].tool = "get" THEN "GET" ELSE "POST"
  /\ \A c \in Callers :
       result[c].tag = "Err" => api_sent[c] = 0 /\ ApiInFlightOf(c) = {}

\* C13 witness: a POST is in flight with the token returned to its call while
\* the slot already holds another caller's token.
C13_Witness ==
  \E req \in api_inflight :
    /\ req.method = "POST"
    /\ IsSome(cached_token)
    /\ req.authorization # <<"Bearer", cached_token.access_token>>
    /\ req.authorization = <<"Bearer", result[req.caller].access_token>>

\* A call whose request to the document API was answered.
Answered(c) ==
  gpc[c] = "done" /\ api_response[c] # None /\ api_response[c].kind = "response"

\* The error code and message the claim names for each non-success status.
C14_CategoryOfStatus(status) ==
  CASE status = 404 -> <<"invalid_params", "Document not found">>
    [] status = 403 -> <<"invalid_params", "Permission denied">>
    [] status = 401 -> <<"internal_error", "Authentication failed">>
    [] status = 429 -> <<"internal_error", "Rate limit exceeded">>
    [] OTHER -> <<"internal_error", "API request failed">>

\* C14 as stated: the outcome of an answered call is fixed by the status; for
\* a 2xx status it is the parsed result.
C14_OutcomeFixedByStatus ==
  \A c \in Callers :
    Answered(c) =>
      IF api_response[c].status \in 200..299
        THEN api_result[c].tag = "Ok"
        ELSE /\ api_result[c].tag = "Err"
             /\ Category(api_result[c]) = C14_CategoryOfStatus(api_response[c].status)

\* C14 amended: for a non-2xx status the outcome of an answered call, of
\* either tool, is the error whose code and message the status fixes (the
\* five are pairwise different), quoting the body for 404, 403 and 401,
\* nothing for 429, the status and the body otherwise; for a 2xx status it is
\* the parsed result when the body deserializes and the "Failed to parse API
\* response" error when it does not.
C14_OutcomeFixedByStatusAndParse ==
  /\ \A s1, s2 \in {404, 403, 401, 429, 500} :
       s1 # s2 => C14_CategoryOfStatus(s1) # C14_CategoryOfStatus(s2)
  /\ \A c \in Callers :
       Answered(c) =>
         LET status == api_response[c].status
             body == api_response[c].body
         IN IF status \in 200..299
              THEN IF body = "{json}"
                     THEN api_result[c].tag = "Ok"
                     ELSE /\ api_result[c].tag = "Err"
                          /\ api_result[c].message = "Failed to parse API response"
              ELSE /\ api_result[c].tag = "Err"
                   /\ Category(api_result[c]) = C14_CategoryOfStatus(status)
                   /\ api_result[c].details =
                        CASE status \in {404, 403, 401} -> <<body>>
                          [] status = 429 -> <<>>
                          [] OTHER -> <<status, body>>
                   /\ tool_result[c].is_error
                   /\ tool_result[c].error = api_result[c]

\* C14 witness: an update was answered with 403 and a body while a get of
\* another caller was answered with 200.
C14_Witness ==
  \E c, d \in Callers :
    /\ Answered(c) /\ tool_call[c].tool = "update"
    /\ api_response[c].status = 403 /\ api_response[c].body # ""
    /\ api_result[c].code = "invalid_params"
    /\ Answered(d) /\ tool_call[d].tool = "get"
    /\ api_response[d].status = 200

\* The request of the current call of c to the issuer or to the document API
\* has failed.
RequestFailed(c) ==
  \/ result[c].tag = "Err"
  \/ /\ api_response[c] # None
     /\ \/ api_response[c].kind = "network"
        \/ api_response[c].status \notin 200..299
        \/ api_response[c].body # "{json}"

\* C15: a call sends at most one request to the issuer and at most one to
\* the document API, and a call that has ended after either request failed
\* has an error result and nothing in flight.
C15_NoRetry ==
  \A c \in Callers :
    /\ issuer_sent[c] <= 1
    /\ api_sent[c] <= 1
    /\ Cardinality(InFlightOf(c)) <= issuer_sent[c]
    /\ Cardinality(ApiInFlightOf(c)) <= api_sent[c]
    /\ (gpc[c] = "done" /\ RequestFailed(c))
       => /\ tool_result[c].is_error
          /\ InFlightOf(c) = {}
          /\ ApiInFlightOf(c) = {}

\* C15 witness: a call has ended on a 429 after one request to the issuer
\* and one to the document API.
C15_Witness ==
  \E c \in Callers :
    /\ Answered(c)
    /\ api_response[c].status = 429
    /\ issuer_sent[c] = 1
    /\ api_sent[c] = 1
    /\ tool_result[c].is_error

\* The positions of conv_input.
Positions == 1..Len(conv_input)

\* convert_requests has returned.
Converted == conv_output # Pending

\* C16: convert_requests rejects every list holding an insert with index
\* below 1; it gives the insert error only for such a list; it accepts every
\* list of inserts with index 1 or more; and each insert of an accepted list
\* is at its position in the output with the same text and index.
C16_InsertRejectedExactlyBelowOne ==
  Converted =>
    /\ (\E i \in Positions :
          conv_input[i].kind = "InsertText" /\ conv_input[i].index < 1)
       => conv_output.tag = "Err"
    /\ (conv_output.tag = "Err"
          /\ conv_output.message = "Insert index must be at least 1")
       => \E i \in Positions :
            conv_input[i].kind = "InsertText" /\ conv_input[i].index < 1
    /\ (\A i \in Positions :
          conv_input[i].kind = "InsertText" /\ conv_input[i].index >= 1)
       => conv_output.tag = "Ok"
    /\ conv_output.tag = "Ok"
       => \A i \in Positions :
            conv_input[i].kind = "InsertText"
            => /\ conv_output.value[i].insert_text # None
               /\ conv_output.value[i].insert_text.text = conv_input[i].text
               /\ conv_output.value[i].insert_text.location.index
                    = conv_input[i].index

\* C16 witness: a list whose second element is an insert at index 1 was
\* accepted and holds that insert at its second position.
C16_Witness ==
  /\ Converted
  /\ Len(conv_input) = 2
  /\ conv_input[2] = InsertText("hi", 1)
  /\ conv_output.tag = "Ok"
  /\ conv_output.value[2].insert_text.location.index = 1

\* C17: convert_requests rejects every list holding a delete with start below
\* 1 or end not above start; it gives the delete errors only for such a list;
\* it accepts every list of deletes with start >= 1 and end > start; and
\* each delete of an accepted list is at its position in the output with the
\* same start and end.
C17_DeleteAcceptedExactlyForProperRange ==
  Converted =>
    /\ (\E i \in Positions :
          /\ conv_input[i].kind = "DeleteContentRange"
          /\ ~(conv_input[i].start_index >= 1
                /\ conv_input[i].end_index > conv_input[i].start_index))
       => conv_output.tag = "Err"
    /\ (conv_output.tag = "Err"
          /\ conv_output.message \in
               {"Start index must be at least 1",
                "End index must be greater than start index"})
       => \E i \in Positions :
            /\ conv_input[i].kind = "DeleteContentRange"
            /\ ~(conv_input[i].start_index >= 1
                  /\ conv_input[i].end_index > conv_input[i].start_index)
    /\ (\A i \in Positions :
          /\ conv_input[i].kind = "DeleteContentRange"
          /\ conv_input[i].start_index >= 1
          /\ conv_input[i].end_index > conv_input[i].start_index)
       => conv_output.tag = "Ok"
    /\ conv_output.tag = "Ok"
       => \A i \in Positions :
            conv_input[i].kind = "DeleteContentRange"
            => /\ conv_output.value[i].delete_content_range # None
               /\ conv_output.value[i].delete_content_range.range.start_index
                    = conv_input[i].start_index
               /\ conv_output.value[i].delete_content_range.range.end_index
                    = conv_input[i].end_index

\* C17 witness: the delete of the range 1..2 was accepted after another
\* accepted operation.
C17_Witness ==
  /\ Converted
  /\ Len(conv_input) = 2
  /\ conv_input[2] = DeleteContentRange(1, 2)
  /\ conv_output.tag = "Ok"
  /\ conv_output.value[2].delete_content_range.range.end_index = 2

\* C18: convert_requests rejects every list holding a replace with an empty
\* find_text; it gives the find-text error only for such a list; it accepts
\* every list of replaces with a non-empty find_text, whatever replace_text;
\* and each replace of an accepted list is at its position in the output
\* with the same find_text, replace_text and match_case.
C18_ReplaceRejectedExactlyForEmptyFind ==
  Converted =>
    /\ (\E i \in Positions :
          conv_input[i].kind = "ReplaceAllText" /\ conv_input[i].find_text = "")
       => conv_output.tag = "Err"
    /\ (conv_output.tag = "Err"
          /\ conv_output.message = "Find text cannot be empty")
       => \E i \in Positions :
            conv_input[i].kind = "ReplaceAllText" /\ conv_input[i].find_text = ""
    /\ (\A i \in Positions :
          conv_input[i].kind = "ReplaceAllText" /\ conv_input[i].find_text # "")
       => conv_output.tag = "Ok"
    /\ conv_output.tag = "Ok"
       => \A i \in Positions :
            conv_input[i].kind = "ReplaceAllText"
            => /\ conv_output.value[i].replace_all_text # None
               /\ conv_output.value[i].replace_all_text.contains_text.text
                    = conv_input[i].find_text
               /\ conv_output.value[i].replace_all_text.replace_text
                    = conv_input[i].replace_text
               /\ conv_output.value[i].replace_all_text.contains_text.match_case
                    = conv_input[i].match_case

\* C18 witness: a replace with an empty replace_text and match_case set was
\* accepted.
C18_Witness ==
  /\ Converted
  /\ Len(conv_input) >= 1
  /\ conv_input[1] = ReplaceAllText("hi", "", TRUE)
  /\ conv_output.tag = "Ok"
  /\ conv_output.value[1].replace_all_text.replace_text = ""

\* The operation passes the validation rules of its kind.
ValidOperation(req) ==
  CASE req.kind = "InsertText" -> req.index >= 1
    [] req.kind = "DeleteContentRange" ->
         req.start_index >= 1 /\ req.end_index > req.start_index
    [] req.kind = "ReplaceAllText" -> req.find_text # ""

\* The cases of local rejection: an empty document ID, an empty request list,
\* a batch with an invalid operation at any position.
MustBeRejected(call) ==
  \/ call.document_id = ""
  \/ /\ call.tool = "update"
     /\ \/ call.requests = <<>>
        \/ \E i \in 1..Len(call.requests) : ~ValidOperation(call.requests[i])

\* Caller c begins a tool call in this step.
BeginsCall(c) ==
  /\ gpc[c] \in {"idle", "done"}
  /\ gpc'[c] = "token" \/ tool_call'[c] # tool_call[c]

\* C19: a tool call in one of the cases of local rejection ends on the spot,
\* and every tool call that ends on the spot has an error result, has sent
\* nothing to the issuer or the document API and leaves the slot as it was.
C19_LocalRejectionWithoutNetwork ==
  [][\A c \in Callers :
       BeginsCall(c) =>
         /\ MustBeRejected(tool_call'[c]) => gpc'[c] = "done"
         /\ gpc'[c] = "done"
            => /\ tool_result'[c].is_error
               /\ tool_result'[c].error = None
               /\ api_sent'[c] = 0
               /\ UNCHANGED <<issuer_inflight, issuer_sent, api_inflight,
                              cached_token, calls, issued>>]_vars

\* C19 witness: a batch whose first operation is valid and whose last is not
\* has been rejected with the error of the last, nothing in flight.
C19_Witness ==
  \E c \in Callers :
    /\ gpc[c] = "done"
    /\ tool_call[c] # None
    /\ tool_call[c].tool = "update"
    /\ tool_call[c].requests = <<InsertText("hi", 1), DeleteContentRange(2, 2)>>
    /\ tool_result[c] = ToolError("End index must be greater than start index")
    /\ api_inflight = {} /\ issuer_inflight = {}

\* The JSON key of each kind of operation.
KeyOfKind(kind) ==
  CASE kind = "InsertText" -> "insertText"
    [] kind = "DeleteContentRange" -> "deleteContentRange"
    [] kind = "ReplaceAllText" -> "replaceAllText"

\* C20: the body of every POST in flight has one element per operation of
\* the call, each with exactly the key of its operation's kind; the call
\* update("doc1", [InsertText{"hi", 1}]) that obtained its token has sent
\* exactly one request, with insertText.text = "hi" and
\* insertText.location.index = 1.
C20_OneKeyPerElement ==
  /\ \A req \in api_inflight :
       req.method = "POST" =>
         LET ops == tool_call[req.caller].requests IN
           /\ Len(req.body.requests) = Len(ops)
           /\ \A i \in 1..Len(ops) :
                DOMAIN req.body.requests[i] = {KeyOfKind(ops[i].kind)}
           /\ ops = <<InsertText("hi", 1)>>
              => /\ req.document_id = "doc1"
                 /\ req.body.requests[1].insertText.text = "hi"
                 /\ req.body.requests[1].insertText.location.index = 1
  /\ \A c \in Callers :
       (/\ tool_call[c] # None
        /\ tool_call[c].tool = "update"
        /\ tool_call[c].document_id = "doc1"
        /\ tool_call[c].requests = <<InsertText("hi", 1)>>
        /\ result[c].tag = "Ok"
        /\ gpc[c] \in {"await_api", "done"})
       => /\ api_sent[c] = 1
          /\ gpc[c] = "await_api" => Cardinality(ApiInFlightOf(c)) = 1

\* C20 witness: the POST of update("doc1", [InsertText{"hi", 1}]) is in
\* flight.
C20_Witness ==
  \E req \in api_inflight :
    /\ req.method = "POST"
    /\ req.document_id = "doc1"
    /\ tool_call[req.caller].requests = <<InsertText("hi", 1)>>
    /\ DOMAIN req.body.requests[1] = {"insertText"}

\* The JSON element the document API expects for an operation of the caller.
WireElementOf(op) ==
  CASE op.kind = "InsertText" ->
         [k \in {"insertText"} |->
            [text |-> op.text, location |-> [index |-> op.index]]]
    [] op.kind = "DeleteContentRange" ->
         [k \in {"deleteContentRange"} |->
            [range |-> [start_index |-> op.start_index,
                        end_index |-> op.end_index]]]
    [] op.kind = "ReplaceAllText" ->
         [k \in {"replaceAllText"} |->
            [contains_text |-> [text |-> op.find_text,
                                match_case |-> op.match_case],
             replace_text |-> op.replace_text]]

\* C21: every POST in flight belongs to a batch whose operations are all
\* valid, and its body lists, position by position, the translations of the
\* operations of its call: as many, in the same order.
C21_BodyKeepsOrderAndLength ==
  \A req \in api_inflight :
    req.method = "POST" =>
      LET ops == tool_call[req.caller].requests IN
        /\ \A i \in 1..Len(ops) : ValidOperation(ops[i])
        /\ DOMAIN req.body.requests = 1..Len(ops)
        /\ \A i \in 1..Len(ops) : req.body.requests[i] = WireElementOf(ops[i])

\* C21 witness: the POST of a batch of a delete followed by a replace is in
\* flight with the delete first.
C21_Witness ==
  \E req \in api_inflight :
    /\ req.method = "POST"
    /\ Len(tool_call[req.caller].requests) = 2
    /\ tool_call[req.caller].requests[1].kind = "DeleteContentRange"
    /\ DOMAIN req.body.requests[1] = {"deleteContentRange"}
    /\ DOMAIN req.body.requests[2] = {"replaceAllText"}

\* C22: no invocation of a tool ends in a panic of its handler.
C22_EveryCallReturnsAResult ==
  \A c \in Callers : gpc[c] # "panicked"


\* A call of get_access_token by caller c has begun and has not returned.
InGetAccessToken(c) == pc[c] \notin {"idle", "done"}

\* A call of get_document or batch_update by caller c has begun and has not
\* returned.
InClientMethod(c) == gpc[c] \in {"token", "await_api"}

\* C23: under the timeout and a fair runtime, in a process that goes on
\* running, every call of get_access_token returns and every call of
\* get_document and of batch_update returns; a caller that waits for the lock
\* of the token slot leaves its wait only with the lock in hand (and, its
\* call returning, it does leave it); a request that timed out has made its
\* call return the error "Request timed out".
C23_EveryCallReturns ==
  /\ \A c \in Callers : InGetAccessToken(c) ~> (pc[c] = "done" \/ ~Serving)
  /\ \A c \in Callers :
       InClientMethod(c) ~> (api_result[c] # Pending \/ ~Serving)
  /\ [][\A c \in Callers :
          /\ (pc[c] = "read_wait" /\ pc'[c] # "read_wait") => pc'[c] = "check"
          /\ (pc[c] = "write_wait" /\ pc'[c] # "write_wait") => pc'[c] = "write"
       ]_vars
  /\ [](\A c \in Callers :
          /\ (api_response[c] = [kind |-> "network", failure |-> "timeout"]
                => api_result[c] = Err("Request timed out"))
          /\ ((/\ issuer_response[c] = [kind |-> "network", failure |-> "timeout"]
               /\ pc[c] = "done")
                => result[c] = Err("Request timed out")))

\* A call of batch_update returned the timeout error after it had waited for
\* the token slot behind another caller.
C23_Witness ==
  /\ api_response[1] = [kind |-> "network", failure |-> "timeout"]
  /\ api_result[1] = Err("Request timed out")
  /\ tool_call[1].tool = "update"
  /\ result[1].tag = "Ok"
  /\ \E c \in Callers \ {1} : result[c].tag = "Ok"

\* Nothing has been served and nothing has been sent: no tool call has begun,
\* no call of get_access_token, no request to the issuer or to the document
\* API.
NothingServed ==
  /\ calls = 0
  /\ issuer_inflight = {} /\ api_inflight = {}
  /\ \A c \in Callers :
       /\ gpc[c] = "idle" /\ pc[c] = "idle"
       /\ tool_call[c] = None /\ tool_result[c] = Pending
       /\ issuer_sent[c] = 0 /\ api_sent[c] = 0

\* What main ends with for an environment and a key file it cannot use.
StartupFailure ==
  IF env_key = "unset"
    THEN Err("GOOGLE_SERVICE_ACCOUNT_KEY environment variable is required")
  ELSE IF key_file.kind = "unreadable"
    THEN Err("Failed to read service account key file")
  ELSE Err("Failed to parse service account key file")

\* C24: the process has left its startup for serving only with the variable
\* set, the file read and its content parsed as credentials, which are the
\* client's; before that nothing is served or sent; and when the variable is
\* absent, the file unreadable or its content no credentials, the startup
\* ends in the failure with its error and nothing is ever served or sent.
C24_ServesOnlyWithCredentials ==
  /\ phase \in {"serving", "aborted"} =>
       /\ env_key = "path"
       /\ key_file.kind = "credentials"
       /\ private_key = key_file.private_key
       /\ startup_error = None
  /\ phase = "starting" => NothingServed /\ startup_error = None
  /\ (env_key = "unset" \/ key_file.kind # "credentials") =>
       /\ phase \in {"starting", "failed"}
       /\ NothingServed
       /\ phase = "failed" => startup_error = StartupFailure
  /\ phase = "failed" => (env_key = "unset" \/ key_file.kind # "credentials")

\* The startup found the variable set and the file readable, but its content
\* no credentials, and ended.
C24_Witness ==
  /\ phase = "failed"
  /\ env_key = "path"
  /\ key_file.kind = "unparseable"
  /\ startup_error = Err("Failed to parse service account key file")

\* Caller c is inside fetch_new_token.
Refreshing(c) == pc[c] \in {"fetch", "await_issuer"}

\* C25: a refresh that ends in an error, at the key, at the signature, at the
\* transport, at the status or at the body, leaves the slot and the record of
\* its last store as they were; an error is only ever returned out of the
\* refresh of the call that returns it; a call begins with no result, and its
\* check, when the slot holds no token with expires_at > now + 60, goes on
\* to a refresh whatever the calls before it returned; with a usable key that
\* refresh sends a new POST.
C25_FailedRefreshLeavesSlotAndIsNotRemembered ==
  [][\A c \in Callers :
       /\ (Refreshing(c) /\ pc'[c] = "done") =>
            /\ result'[c].tag = "Err"
            /\ cached_token' = cached_token
            /\ last_store' = last_store
       /\ (result'[c].tag = "Err" /\ result[c].tag # "Err") => Refreshing(c)
       /\ (pc[c] \in {"idle", "done"} /\ pc'[c] = "read_wait") =>
            result'[c] = Pending
       /\ (pc[c] = "check" /\ pc'[c] # "check") =>
            IF /\ cached_token.tag = "Some"
               /\ cached_token.expires_at > now + FRESHNESS_MARGIN_SECS
              THEN pc'[c] = "done" /\ result'[c].tag = "Ok"
              ELSE pc'[c] = "fetch" /\ result'[c] = Pending
       /\ (pc[c] = "fetch" /\ pc'[c] # "fetch" /\ private_key = "valid") =>
            /\ pc'[c] = "await_issuer"
            /\ issuer_sent'[c] = 1
            /\ Cardinality(InFlightOf(c)') = 1
            /\ InFlightOf(c) = {}
  ]_vars

\* One caller has made every call so far: its first call failed (no token was
\* ever issued, the slot is empty), and its next call has a new POST in
\* flight.
C25_Witness ==
  \E c \in Callers :
    /\ calls = 2
    /\ \A d \in Callers \ {c} : pc[d] = "idle"
    /\ issued = 0
    /\ cached_token = None
    /\ pc[c] = "await_issuer"
    /\ issuer_sent[c] = 1
    /\ Cardinality(InFlightOf(c)) = 1

\* The tokens the document API has answered with 401.
RejectedTokens ==
  {result[d].access_token :
     d \in {e \in Callers :
              /\ gpc[e] = "done" /\ result[e].tag = "Ok"
              /\ api_response[e] # None
              /\ api_response[e].kind = "response"
              /\ api_response[e].status = 401}}

\* The slot holds a token with expires_at > now + 60.
SlotFresh ==
  /\ cached_token.tag = "Some"
  /\ cached_token.expires_at > now + FRESHNESS_MARGIN_SECS

\* C26: the end of a request to the document API, whatever it is, leaves the
\* slot, the record of its last store and the requests to the issuer as they
\* were; a check that finds in the slot a token with expires_at > now + 60
\* returns that token, the document API having rejected it or not, and the
\* call that got it this way sends it as its Bearer without having sent
\* anything to the issuer.
C26_ApiResponsesLeaveTheSlot ==
  [][\A c \in Callers :
       /\ (gpc[c] = "await_api" /\ gpc'[c] # "await_api") =>
            /\ cached_token' = cached_token
            /\ last_store' = last_store
            /\ issuer_inflight' = issuer_inflight
            /\ issuer_sent' = issuer_sent
       /\ (pc[c] = "check" /\ pc'[c] # "check" /\ SlotFresh) =>
            /\ pc'[c] = "done"
            /\ result'[c].tag = "Ok"
            /\ result'[c].access_token = cached_token.access_token
            /\ issuer_sent'[c] = 0
            /\ issuer_inflight' = issuer_inflight
            /\ cached_token' = cached_token
       /\ (/\ gpc[c] = "token" /\ gpc'[c] = "await_api"
           /\ result[c].path = "cached") =>
            /\ issuer_sent[c] = 0
            /\ \E req \in api_inflight' \ api_inflight :
                 /\ req.caller = c
                 /\ req.authorization = <<"Bearer", result[c].access_token>>
  ]_vars

\* A token was answered with 401, it is still in the slot, and another call,
\* served from the slot, has it in flight again, having sent nothing to the
\* issuer.
C26_Witness ==
  \E c \in Callers, req \in api_inflight :
    /\ req.caller = c
    /\ SlotFresh
    /\ cached_token.access_token \in RejectedTokens
    /\ req.authorization = <<"Bearer", cached_token.access_token>>
    /\ result[c].path = "cached"
    /\ issuer_sent[c] = 0

\* C27: every write to the slot that replaces a token stores a token whose
\* expires_at is at least the expires_at of the token it replaces.
C27_ExpiryNeverGoesBack ==
  [][(IsSome(cached_token) /\ cached_token' # cached_token)
       => cached_token'.expires_at >= cached_token.expires_at]_vars

\* C27 as the code has it: the slot changes only in the store of a caller
\* holding the write lock, and every store puts the storing caller's token in
\* the slot, with expires_at = the start of its refresh + its expires_in,
\* whatever the slot held: the last writer wins.
C27_LastWriterWins ==
  [][/\ cached_token' # cached_token =>
          \E c \in Callers : pc[c] = "write" /\ pc'[c] = "done" /\ writers = {c}
     /\ \A c \in Callers :
          (pc[c] = "write" /\ pc'[c] # "write") =>
            /\ cached_token' = new_token[c]
            /\ cached_token'.access_token = token_response[c].access_token
            /\ cached_token'.expires_at =
                 fetch_now[c] + token_response[c].expires_in
  ]_vars

\* Two callers refreshed and stored. The refresh of the last store started at
\* 0 and got 90 seconds; the token it replaced expires later than 90, so its
\* refresh started later: the slot went back to the earlier expiry.
C27_Witness ==
  \E c1, c2 \in Callers :
    /\ c1 # c2
    /\ pc[c1] = "done" /\ result[c1].tag = "Ok" /\ result[c1].path = "refreshed"
    /\ pc[c2] = "done" /\ result[c2].tag = "Ok" /\ result[c2].path = "refreshed"
    /\ last_store # None /\ last_store.caller = c2
    /\ last_store.t0 = 0 /\ last_store.response.expires_in = 90
    /\ cached_token = result[c2].token
    /\ cached_token.expires_at = 90
    /\ result[c1].token.expires_at > cached_token.expires_at
====
